---------------------------- MODULE Spec2Model ----------------------------
(***************************************************************************)
(* A model of pybind: the path-scoped error collector (errors.py) and the  *)
(* type-directed binder compiler (pybind.py).                               *)
(*                                                                         *)
(* Three specifications share the variables:                               *)
(*   SpecErrors  one Errors collector driven by add_error / with_path      *)
(*   Spec        one BindersFactory driven by get / register_binder and    *)
(*               invocations of the binders it handed out                  *)
(*   SpecBind    the module-level bind(cls, data) on a fresh factory       *)
(***************************************************************************)
EXTENDS Integers, Sequences, FiniteSets, TLC

VARIABLES
    errors,         \* Errors._errors, flattened: key path -> node
    current_path,   \* Errors._current_path
    scopes,         \* the with_path frames that are open: the path each was entered from
    raising,        \* an exception is propagating through the open with_path frames
    added,          \* history: path -> the errors add_error stored while it was current
    ncalls,         \* history: number of add_error calls made
    last,           \* history: how the last add_error call or with_path block ended
    cache,          \* BindersFactory._cache
    registry,       \* BindersFactory._binders_registry
    closures,       \* number of closure objects create() has allocated
    returned,       \* history: descriptor -> binder get first returned since the last registration
    stale,          \* history: descriptors get returned a binder for before the last registration
    failedCall,     \* history: a binder invocation has failed since the last registration
    op,             \* history: the last operation on the factory and its outcome
    pc              \* position of bind(cls, data)

vars == <<errors, current_path, scopes, raising, added, ncalls, last,
          cache, registry, closures, returned, stale, failedCall, op, pc>>

collectorVars == <<errors, current_path, scopes, raising, added, ncalls, last>>
factoryVars == <<cache, registry, closures, returned, stale, failedCall, op, pc>>

(***************************************************************************)
(* Bounds                                                                  *)
(***************************************************************************)
MaxDepth == 2       \* with_path nesting depth explored
MaxCalls == 3       \* add_error calls explored

(***************************************************************************)
(* errors.py                                                               *)
(***************************************************************************)

\* Path segments and keys are tagged so that strings and integers can share a
\* dictionary, as they do in Python.
StrKey(s) == [s |-> s]
IntKey(i) == [i |-> i]

GLOBAL_ERROR_KEY == StrKey("")

Segments == {IntKey(0), GLOBAL_ERROR_KEY}
\* the error values passed to add_error: the n-th call passes n
ErrorValue(n) == n

\* A node of the nested dictionary: a dict (its entries are the longer key
\* paths) or a list of errors.
DictNode == [isList |-> FALSE, items |-> <<>>]
ListNode(xs) == [isList |-> TRUE, items |-> xs]

EmptyTree == [k \in {} |-> DictNode]

\* The object reached by key path `at`; the root (<<>>) is the dict _errors.
IsListAt(tree, at) == at # <<>> /\ tree[at].isList

\* dict.setdefault(key, default) on the dict at Front(k), as the tree after it.
SetDefault(tree, k, default) ==
    IF k \in DOMAIN tree THEN tree ELSE tree @@ (k :> default)

\* for p in self._current_path: es = es.setdefault(p, {})
\* ok is FALSE when es is a list, which has no setdefault (AttributeError).
RECURSIVE Walk(_, _, _)
Walk(tree, at, rest) ==
    IF rest = <<>> THEN [tree |-> tree, at |-> at, ok |-> TRUE]
    ELSE IF IsListAt(tree, at) THEN [tree |-> tree, at |-> at, ok |-> FALSE]
    ELSE LET k == Append(at, Head(rest))
         IN  Walk(SetDefault(tree, k, DictNode), k, Tail(rest))

\* es.setdefault(GLOBAL_ERROR_KEY, []).append(error), once the bucket is a list
StoreError(tree, k, error) ==
    [tree EXCEPT ![k] = ListNode(Append(@.items, error))]

\* Errors.add_error as a function of the tree: the tree it leaves (entries
\* created before a failure stay) and whether it raised AttributeError.
AddErrorResult(tree, path, error) ==
    LET w == Walk(tree, <<>>, path)
        k == Append(w.at, GLOBAL_ERROR_KEY)
        t == SetDefault(w.tree, k, ListNode(<<>>))
    IN  IF ~w.ok \/ IsListAt(w.tree, w.at)
            THEN [tree |-> w.tree, exc |-> "AttributeError"]
        ELSE IF ~t[k].isList
            THEN [tree |-> t, exc |-> "AttributeError"]
        ELSE [tree |-> StoreError(t, k, error), exc |-> "none"]

\* self._current_path + (path, )
PushPath(path, segment) == Append(path, segment)

\* Mutant of PopPath: drops the first segment instead of the last.
PopPathFront(path) == Tail(path)

\* self._current_path[:-1]
PopPath(path) == SubSeq(path, 1, Len(path) - 1)

\* Errors.__bool__
HasErrors(tree) == DOMAIN tree # {}

HistoryAt(h, p) == IF p \in DOMAIN h THEN h[p] ELSE <<>>

InitCollector ==
    /\ errors = EmptyTree
    /\ current_path = <<>>
    /\ scopes = <<>>
    /\ raising = FALSE
    /\ added = [p \in {} |-> <<>>]
    /\ ncalls = 0
    /\ last = "none"

\* e.add_error(error)
AddError ==
    /\ ~raising
    /\ ncalls < MaxCalls
    /\ LET error == ErrorValue(ncalls + 1)
           r == AddErrorResult(errors, current_path, error)
       IN  /\ errors' = r.tree
           /\ raising' = (r.exc # "none")
           /\ added' = IF r.exc = "none"
                       THEN [p \in DOMAIN added \cup {current_path} |->
                               IF p = current_path
                               THEN Append(HistoryAt(added, p), error)
                               ELSE added[p]]
                       ELSE added
           /\ last' = IF r.exc = "none" THEN "added" ELSE r.exc
    /\ ncalls' = ncalls + 1
    /\ UNCHANGED <<current_path, scopes>>

\* with e.with_path(segment): the code before the yield
EnterPath(segment) ==
    /\ ~raising
    /\ Len(scopes) < MaxDepth
    /\ current_path' = PushPath(current_path, segment)
    /\ scopes' = Append(scopes, current_path)
    /\ UNCHANGED <<errors, raising, added, ncalls, last>>

\* the block of a with_path ends normally: the finally clause runs
ExitPath ==
    /\ ~raising
    /\ scopes # <<>>
    /\ current_path' = PopPath(current_path)
    /\ scopes' = SubSeq(scopes, 1, Len(scopes) - 1)
    /\ last' = "left"
    /\ UNCHANGED <<errors, raising, added, ncalls>>

\* the caller's code inside a with_path block raises
RaiseInside ==
    /\ ~raising
    /\ scopes # <<>>
    /\ raising' = TRUE
    /\ UNCHANGED <<errors, current_path, scopes, added, ncalls, last>>

\* an exception leaves the innermost with_path block: the finally clause runs
UnwindPath ==
    /\ raising
    /\ scopes # <<>>
    /\ current_path' = PopPath(current_path)
    /\ scopes' = SubSeq(scopes, 1, Len(scopes) - 1)
    /\ last' = "unwound"
    /\ UNCHANGED <<errors, raising, added, ncalls>>

\* the caller catches the exception at the current nesting level
Catch ==
    /\ raising
    /\ raising' = FALSE
    /\ UNCHANGED <<errors, current_path, scopes, added, ncalls, last>>

(***************************************************************************)
(* pybind.py: raw data, bound values and the outcome of a call             *)
(***************************************************************************)

MISSING == [t |-> "MISSING"]            \* MISSING = object()
None == [t |-> "None"]
IntV(i) == [t |-> "int", i |-> i]
StrV(s) == [t |-> "str", s |-> s]
BoolV(b) == [t |-> "bool", b |-> b]
ListV(items) == [t |-> "list", items |-> items]
TupleV(items) == [t |-> "tuple", items |-> items]
\* a dict, as the sequence of its <<key, value>> entries; keys are strings
DictV(entries) == [t |-> "dict", entries |-> entries]
NamedTupleV(cls, kwargs) == [t |-> "namedtuple", cls |-> cls, kwargs |-> kwargs]
ObjectV(cls, attrs) == [t |-> "object", cls |-> cls, attrs |-> attrs]
EnumV(cls, member) == [t |-> "enum", cls |-> cls, member |-> member]
\* what a converter registered by the caller returns
ConvertedV(by, of) == [t |-> "converted", by |-> by, of |-> of]

\* The outcome of a call: a value, or the exception that left it.
Ok(v) == [exc |-> "none", val |-> v, msg |-> ""]
Raise(exc, msg) == [exc |-> exc, val |-> None, msg |-> msg]

\* isinstance(data, (list, tuple))
IsSequence(data) == data.t \in {"list", "tuple"}

\* The text of the string literals of the model, for the operations Python
\* performs on the characters of a string.
StripTable == (" " :> "") @@ (" 1" :> "1") @@ ("1" :> "1") @@ ("abc" :> "abc")
              @@ ("b" :> "b") @@ ("" :> "")
IntLiterals == ("1" :> 1) @@ (" 1" :> 1)
DigitText == (0 :> "0") @@ (1 :> "1") @@ (2 :> "2") @@ (5 :> "5")

\* str.strip()
Strip(s) == IF s \in DOMAIN StripTable THEN StripTable[s] ELSE s

RECURSIVE PyRepr(_), PyReprItems(_), PyReprEntries(_)
\* repr(value), which str() of a container applies to its elements
PyRepr(v) ==
    CASE v.t = "None" -> "None"
      [] v.t = "int" -> IF v.i \in DOMAIN DigitText THEN DigitText[v.i] ELSE "<int>"
      [] v.t = "str" -> "'" \o v.s \o "'"
      [] v.t = "bool" -> IF v.b THEN "True" ELSE "False"
      [] v.t = "list" -> "[" \o PyReprItems(v.items) \o "]"
      [] v.t = "tuple" -> "(" \o PyReprItems(v.items) \o ")"
      [] v.t = "dict" -> "{" \o PyReprEntries(v.entries) \o "}"
      [] OTHER -> "<object>"
PyReprItems(items) ==
    IF items = <<>> THEN ""
    ELSE IF Len(items) = 1 THEN PyRepr(items[1])
    ELSE PyRepr(items[1]) \o ", " \o PyReprItems(Tail(items))
PyReprEntries(entries) ==
    IF entries = <<>> THEN ""
    ELSE LET e == "'" \o entries[1][1] \o "': " \o PyRepr(entries[1][2])
         IN  IF Len(entries) = 1 THEN e ELSE e \o ", " \o PyReprEntries(Tail(entries))

\* str(data)
PyStr(v) == IF v.t = "str" THEN v.s ELSE PyRepr(v)

\* int(data): a value, or ValueError / TypeError
PyInt(v) ==
    CASE v.t = "int" -> Ok(IntV(v.i))
      [] v.t = "bool" -> Ok(IntV(IF v.b THEN 1 ELSE 0))
      [] v.t = "str" -> IF v.s \in DOMAIN IntLiterals
                        THEN Ok(IntV(IntLiterals[v.s]))
                        ELSE Raise("ValueError", "invalid literal for int()")
      [] OTHER -> Raise("TypeError", "int() argument must be a string or a number")

\* bool(data): truthiness
PyBool(v) ==
    CASE v.t = "None" -> Ok(BoolV(FALSE))
      [] v.t = "int" -> Ok(BoolV(v.i # 0))
      [] v.t = "bool" -> Ok(v)
      [] v.t = "str" -> Ok(BoolV(v.s # ""))
      [] v.t \in {"list", "tuple"} -> Ok(BoolV(v.items # <<>>))
      [] v.t = "dict" -> Ok(BoolV(v.entries # <<>>))
      [] OTHER -> Ok(BoolV(TRUE))

RECURSIVE DictGet(_, _, _)
\* dict.get(name, default) on the entries of a dict
DictGet(entries, name, default) ==
    IF entries = <<>> THEN default
    ELSE IF entries[1][1] = name THEN entries[1][2]
    ELSE DictGet(Tail(entries), name, default)

(***************************************************************************)
(* pybind.py: the types a binder is compiled for                           *)
(***************************************************************************)

\* a builtin class: str, bool, int
Builtin(name) == [kind |-> "builtin", name |-> name]
\* a user class: whether inspect.isabstract holds, whether __init__ is
\* object.__init__, whether calling it without arguments raises, and its
\* get_type_hints as <<name, type>> pairs
Class(name, abstract, default_init, call_raises, hints) ==
    [kind |-> "class", name |-> name, abstract |-> abstract,
     default_init |-> default_init, call_raises |-> call_raises, hints |-> hints]
\* NoneType = type(None)
NoneType == Class("NoneType", FALSE, TRUE, FALSE, <<>>)
Ellipsis == [kind |-> "Ellipsis"]
\* typing.Any
AnyType == [kind |-> "Any"]
\* Tuple[args]; Tuple[X, ...] has args <<X, Ellipsis>>
TupleOf(args) == [kind |-> "Tuple", args |-> args]
ListOf(arg) == [kind |-> "List", args |-> <<arg>>]
\* NewType(name, supertype)
NewType(name, supertype) == [kind |-> "NewType", name |-> name, supertype |-> supertype]
\* a class with _fields and _field_types (typing.NamedTuple)
NamedTuple(name, fields, field_types) ==
    [kind |-> "NamedTuple", name |-> name, fields |-> fields, field_types |-> field_types]
\* an enum.Enum subclass: members are <<member name, value>> pairs
Enum(name, int_enum, members) ==
    [kind |-> "Enum", name |-> name, int_enum |-> int_enum, members |-> members]

RECURSIVE Flatten(_), Dedup(_, _)
\* typing.Union[...]: nested unions are flattened, repeated arguments are
\* dropped, and a union of one argument is that argument
Flatten(args) ==
    IF args = <<>> THEN <<>>
    ELSE (IF Head(args).kind = "Union" THEN Head(args).args ELSE <<Head(args)>>)
         \o Flatten(Tail(args))
Dedup(args, seen) ==
    IF args = <<>> THEN <<>>
    ELSE IF Head(args) \in seen THEN Dedup(Tail(args), seen)
    ELSE <<Head(args)>> \o Dedup(Tail(args), seen \cup {Head(args)})
UnionOf(args) ==
    LET flat == Dedup(Flatten(args), {})
    IN  IF Len(flat) = 1 THEN flat[1] ELSE [kind |-> "Union", args |-> flat]
\* typing.Optional[X] is Union[X, None]
Optional(arg) == UnionOf(<<arg, NoneType>>)

\* getattr(cls, '__origin__', None)
Origin(cls) == IF cls.kind \in {"Tuple", "List", "Union"} THEN cls.kind ELSE "None"

try_unwrap_optional(cls) ==
    IF Origin(cls) = "Union" /\ Len(cls.args) = 2
    THEN IF cls.args[1] = NoneType
         THEN [is_optional |-> TRUE, cls |-> cls.args[2]]
         ELSE IF cls.args[2] = NoneType
         THEN [is_optional |-> TRUE, cls |-> cls.args[1]]
         ELSE [is_optional |-> FALSE, cls |-> cls]
    ELSE [is_optional |-> FALSE, cls |-> cls]

is_newtype(cls) == cls.kind = "NewType"

is_namedtuple(cls) == cls.kind = "NamedTuple"

RECURSIVE Keys(_)
\* the keys of a mapping given as <<key, value>> pairs
Keys(pairs) == IF pairs = <<>> THEN {} ELSE {pairs[1][1]} \cup Keys(Tail(pairs))
SeqToSet(s) == {s[i] : i \in DOMAIN s}

(***************************************************************************)
(* pybind.py: binders.  A binder is the closure create() returns: its      *)
(* identity (id), the wrapper make_binder_optional / make_binder_required  *)
(* put around it, and the binder it wraps with the binders that one holds. *)
(***************************************************************************)

NoBinder == [id |-> 0, wrap |-> "none", inner |-> [b |-> "none"]]

\* the entries of _binders_registry
StringConverter == [conv |-> "nonwhitespace_string_binder", cls |-> "str"]
ConvertingBinder(cls) == [conv |-> "converting_binder", cls |-> cls]
\* a converter the caller passes to register_binder
UserConverter(name) == [conv |-> "user", cls |-> name]
UserConverters == {UserConverter("c1"), UserConverter("c2")}

nonwhitespace_string_binder(data) ==
    IF data = None THEN Raise("PybindError", "required")
    ELSE LET s == Strip(PyStr(data))
         IN  IF s = "" THEN Raise("PybindError", "required") ELSE Ok(StrV(s))

\* the binder of create_converting_binder(cls)
converting_binder(cls, data) ==
    IF data = None THEN Raise("PybindError", "cannot bind None value")
    ELSE LET r == IF cls = "int" THEN PyInt(data) ELSE PyBool(data)
         IN  IF r.exc # "none" THEN Raise("PybindError", "unable to bind") ELSE r

\* The two converters callers register in this model: c1 accepts everything,
\* c2 raises TypeError on anything but a string.
user_converter(name, data) ==
    IF name = "c2" /\ data.t # "str" THEN Raise("TypeError", "c2 wants a string")
    ELSE Ok(ConvertedV(name, data))

registry_binder(conv, data) ==
    CASE conv.conv = "nonwhitespace_string_binder" -> nonwhitespace_string_binder(data)
      [] conv.conv = "converting_binder" -> converting_binder(conv.cls, data)
      [] OTHER -> user_converter(conv.cls, data)

\* Mutant of PadMissing: pads with None instead of the absence marker.
PadNone(items, n) ==
    items \o [i \in 1..(IF n > Len(items) THEN n - Len(items) ELSE 0) |-> None]

\* data += [MISSING] * (n - len(data))
PadMissing(items, n) ==
    items \o [i \in 1..(IF n > Len(items) THEN n - Len(items) ELSE 0) |-> MISSING]

\* cls(value) of an Enum class: the member with that value, or ValueError
EnumLookup(cls, members, value) ==
    LET hits == {i \in DOMAIN members : members[i][2] = value}
    IN  IF hits = {} THEN Raise("PybindError", "")
        ELSE Ok(EnumV(cls, members[CHOOSE i \in hits : \A j \in hits : i <= j][1]))

\* the binders of create_enum_binder
enum_binder(b, data) ==
    IF b.int_enum
    THEN LET r == PyInt(data)
         IN  IF r.exc # "none" THEN Raise("PybindError", "")
             ELSE EnumLookup(b.cls, b.members, r.val)
    ELSE EnumLookup(b.cls, b.members, data)

RECURSIVE PairGet(_, _)
\* binders[name]
PairGet(pairs, name) ==
    IF pairs[1][1] = name THEN pairs[1][2] ELSE PairGet(Tail(pairs), name)

\* cls(**kwargs) of a NamedTuple class, its fields in declaration order
Construct(cls, fields, kwargs) ==
    IF Keys(kwargs) = SeqToSet(fields)
    THEN Ok(NamedTupleV(cls, [i \in DOMAIN fields |-> PairGet(kwargs, fields[i])]))
    ELSE Raise("PybindError", "exception when creating")

\* a result of binding several values in turn: the values, or the first failure
Vals(vals) == [exc |-> "none", msg |-> "", vals |-> vals]
Failed(r) == [exc |-> r.exc, msg |-> r.msg, vals |-> <<>>]

RECURSIVE call(_, _), call_inner(_, _), each(_, _), zipped(_, _),
          union_binder(_, _), positional(_, _, _), named(_, _),
          assign_fields(_, _)

\* optional_binder of make_binder_optional
optional_binder(binder, value) ==
    IF value = MISSING THEN Ok(None)
    ELSE LET r == call_inner(binder, value)
         IN  IF r.exc = "TypeError" THEN Ok(None) ELSE r

\* required_binder of make_binder_required
required_binder(binder, value) ==
    IF value = MISSING THEN Raise("PybindError", "value is missing, but required")
    ELSE call_inner(binder, value)

\* binder(value), for a binder create() returned
call(binder, value) ==
    IF binder.wrap = "optional" THEN optional_binder(binder.inner, value)
    ELSE required_binder(binder.inner, value)

\* element_binder(d) for d in data
each(binder, items) ==
    IF items = <<>> THEN Vals(<<>>)
    ELSE LET r == call(binder, Head(items))
         IN  IF r.exc # "none" THEN Failed(r)
             ELSE LET rest == each(binder, Tail(items))
                  IN  IF rest.exc # "none" THEN rest
                      ELSE Vals(<<r.val>> \o rest.vals)

\* b(d) for b, d in zip(binders, data)
zipped(binders, items) ==
    IF binders = <<>> \/ items = <<>> THEN Vals(<<>>)
    ELSE LET r == call(Head(binders), Head(items))
         IN  IF r.exc # "none" THEN Failed(r)
             ELSE LET rest == zipped(Tail(binders), Tail(items))
                  IN  IF rest.exc # "none" THEN rest
                      ELSE Vals(<<r.val>> \o rest.vals)

\* the binder of create_union_binder
union_binder(binders, data) ==
    IF binders = <<>> THEN Raise("PybindError", "unable to bind")
    ELSE LET r == call(Head(binders), data)
         IN  IF r.exc = "PybindError" THEN union_binder(Tail(binders), data)
             ELSE r

\* {name: binders[name](d) for name, d in zip(fields, data)}
positional(binders, fields, items) ==
    IF fields = <<>> \/ items = <<>> THEN Vals(<<>>)
    ELSE LET r == call(PairGet(binders, Head(fields)), Head(items))
         IN  IF r.exc # "none" THEN Failed(r)
             ELSE LET rest == positional(binders, Tail(fields), Tail(items))
                  IN  IF rest.exc # "none" THEN rest
                      ELSE Vals(<<<<Head(fields), r.val>>>> \o rest.vals)

\* {name: binder(data.get(name, MISSING)) for name, binder in binders.items()}
named(binders, entries) ==
    IF binders = <<>> THEN Vals(<<>>)
    ELSE LET r == call(binders[1][2], DictGet(entries, binders[1][1], MISSING))
         IN  IF r.exc # "none" THEN Failed(r)
             ELSE LET rest == named(Tail(binders), entries)
                  IN  IF rest.exc # "none" THEN rest
                      ELSE Vals(<<<<binders[1][1], r.val>>>> \o rest.vals)

\* the binder of created_namedtuple_binder
namedtuple_binder(b, data) ==
    LET kwargs == IF IsSequence(data)
                  THEN positional(b.binders, b.fields, PadMissing(data.items, Len(b.fields)))
                  ELSE IF data.t = "dict" THEN named(b.binders, data.entries)
                  ELSE Failed(Raise("PybindError", "unable to bind"))
    IN  IF kwargs.exc # "none" THEN Raise(kwargs.exc, kwargs.msg)
        ELSE Construct(b.cls, b.fields, kwargs.vals)

\* for name, binder in binders.items(): setattr(inst, name, binder(data.get(name, MISSING)))
\* data.get raises AttributeError unless data is a dict
assign_fields(binders, data) ==
    IF binders = <<>> THEN Vals(<<>>)
    ELSE IF data.t # "dict"
    THEN Failed(Raise("AttributeError", "object has no attribute 'get'"))
    ELSE LET r == call(binders[1][2], DictGet(data.entries, binders[1][1], MISSING))
         IN  IF r.exc # "none" THEN Failed(r)
             ELSE LET rest == assign_fields(Tail(binders), data)
                  IN  IF rest.exc # "none" THEN rest
                      ELSE Vals(<<<<binders[1][1], r.val>>>> \o rest.vals)

\* the binder of create_custom_class_binder; NoneType() is None
class_binder(b, data) ==
    IF b.call_raises THEN Raise("PybindError", "class must define default constructor")
    ELSE LET attrs == assign_fields(b.binders, data)
         IN  IF attrs.exc # "none" THEN Raise(attrs.exc, attrs.msg)
             ELSE IF b.cls = "NoneType" THEN Ok(None)
             ELSE Ok(ObjectV(b.cls, attrs.vals))

\* the binders of create_tuple_binder
tuple_binder(b, data) ==
    IF ~IsSequence(data) THEN Raise("PybindError", "must be convertable to list")
    ELSE LET r == IF b.variadic THEN each(b.binders[1], data.items)
                  ELSE zipped(b.binders, PadMissing(data.items, Len(b.binders)))
         IN  IF r.exc # "none" THEN Raise(r.exc, r.msg) ELSE Ok(TupleV(r.vals))

\* the binder of create_list_binder
list_binder(b, data) ==
    IF ~IsSequence(data) THEN Raise("PybindError", "must be convertable to list")
    ELSE LET r == each(b.binders[1], data.items)
         IN  IF r.exc # "none" THEN Raise(r.exc, r.msg) ELSE Ok(ListV(r.vals))

\* the binder a wrapper delegates to
call_inner(b, data) ==
    CASE b.b = "registry" -> registry_binder(b.conv, data)
      [] b.b = "tuple" -> tuple_binder(b, data)
      [] b.b = "list" -> list_binder(b, data)
      [] b.b = "union" -> union_binder(b.binders, data)
      [] b.b = "get" -> call(b.binder, data)
      [] b.b = "namedtuple" -> namedtuple_binder(b, data)
      [] b.b = "any" -> Ok(data)
      [] b.b = "enum" -> enum_binder(b, data)
      [] b.b = "class" -> class_binder(b, data)

(***************************************************************************)
(* pybind.py: BindersFactory.  get and create thread the factory (cache,   *)
(* registry, closures allocated) through the recursive compilation and     *)
(* return it with the binder, or with the exception that ended it.         *)
(***************************************************************************)

EmptyCache == [c \in {} |-> NoBinder]

\* BindersFactory.__init__: the registry (its str, bool and int entries)
InitialRegistry ==
    (Builtin("str") :> StringConverter)
    @@ (Builtin("bool") :> ConvertingBinder("bool"))
    @@ (Builtin("int") :> ConvertingBinder("int"))

Factory(c, r, n) ==
    [cache |-> c, registry |-> r, closures |-> n,
     exc |-> "none", msg |-> "", binder |-> NoBinder, binders |-> <<>>]

Returns(st, binder) == [st EXCEPT !.exc = "none", !.msg = "", !.binder = binder]
ReturnsAll(st, binders) == [st EXCEPT !.exc = "none", !.msg = "", !.binders = binders]
Throws(st, exc, msg) == [st EXCEPT !.exc = exc, !.msg = msg, !.binder = NoBinder]

\* Mutant of CachePut: the compiled binder is not stored.
CachePutNothing(c, cls, binder) == c

\* self._cache[cls] = b
CachePut(c, cls, binder) ==
    [k \in DOMAIN c \cup {cls} |-> IF k = cls THEN binder ELSE c[k]]

\* Mutant of CacheAfterRegister: the cache is kept.
CacheAfterRegisterKept(c) == c

\* register_binder: self._cache = {}
CacheAfterRegister(c) == EmptyCache

\* register_binder: self._binders_registry[cls] = binder
RegistryPut(r, cls, conv) ==
    [k \in DOMAIN r \cup {cls} |-> IF k = cls THEN conv ELSE r[k]]

make_binder_optional(binder, id) == [id |-> id, wrap |-> "optional", inner |-> binder]

make_binder_required(binder, id) == [id |-> id, wrap |-> "required", inner |-> binder]

RECURSIVE get(_, _), create(_, _), get_all(_, _), get_hints(_, _),
          create_tuple_binder(_, _), create_list_binder(_, _),
          create_union_binder(_, _), create_newtype_binder(_, _),
          created_namedtuple_binder(_, _), create_custom_class_binder(_, _)

get(cls, st) ==
    IF cls \in DOMAIN st.cache THEN Returns(st, st.cache[cls])
    ELSE LET r == create(cls, st)
         IN  IF r.exc # "none" THEN r
             ELSE [r EXCEPT !.cache = CachePut(r.cache, cls, r.binder)]

\* [self.get(typ) for typ in args]
get_all(types, st) ==
    IF types = <<>> THEN ReturnsAll(st, <<>>)
    ELSE LET r == get(Head(types), st)
         IN  IF r.exc # "none" THEN r
             ELSE LET rest == get_all(Tail(types), r)
                  IN  IF rest.exc # "none" THEN rest
                      ELSE ReturnsAll(rest, <<r.binder>> \o rest.binders)

\* {name: self.get(type_) for name, type_ in hints.items()}
get_hints(hints, st) ==
    IF hints = <<>> THEN ReturnsAll(st, <<>>)
    ELSE LET r == get(hints[1][2], st)
         IN  IF r.exc # "none" THEN r
             ELSE LET rest == get_hints(Tail(hints), r)
                  IN  IF rest.exc # "none" THEN rest
                      ELSE ReturnsAll(rest, <<<<hints[1][1], r.binder>>>> \o rest.binders)

create_tuple_binder(cls, st) ==
    LET is_variable_length_tuple == Len(cls.args) = 2 /\ cls.args[2] = Ellipsis
        r == IF is_variable_length_tuple THEN get_all(<<cls.args[1]>>, st)
             ELSE get_all(cls.args, st)
    IN  IF r.exc # "none" THEN r
        ELSE Returns(r, [b |-> "tuple", variadic |-> is_variable_length_tuple,
                         binders |-> r.binders])

create_list_binder(cls, st) ==
    LET r == get(cls.args[1], st)
    IN  IF r.exc # "none" THEN r
        ELSE Returns(r, [b |-> "list", binders |-> <<r.binder>>])

create_newtype_binder(cls, st) ==
    LET r == get(cls.supertype, st)
    IN  IF r.exc # "none" THEN r
        ELSE Returns(r, [b |-> "get", binder |-> r.binder])

create_custom_class_binder(cls, st) ==
    IF cls.abstract THEN Throws(st, "ConfigError", "abstract classes are not supported")
    ELSE IF ~cls.default_init
    THEN Throws(st, "PybindError", "must have default constructor")
    ELSE LET r == get_hints(cls.hints, st)
         IN  IF r.exc # "none" THEN r
             ELSE Returns(r, [b |-> "class", cls |-> cls.name,
                              call_raises |-> cls.call_raises, binders |-> r.binders])

created_namedtuple_binder(cls, st) ==
    IF SeqToSet(cls.fields) # Keys(cls.field_types)
    THEN Throws(st, "PybindError", "some attributes are missing type annotations")
    ELSE LET r == get_hints(cls.field_types, st)
         IN  IF r.exc # "none" THEN r
             ELSE Returns(r, [b |-> "namedtuple", cls |-> cls.name,
                              fields |-> cls.fields, binders |-> r.binders])

create_union_binder(cls, st) ==
    LET r == get_all(cls.args, st)
    IN  IF r.exc # "none" THEN r
        ELSE Returns(r, [b |-> "union", binders |-> r.binders])

create_any_binder == [b |-> "any"]

create_enum_binder(cls) ==
    [b |-> "enum", cls |-> cls.name, int_enum |-> cls.int_enum, members |-> cls.members]

create(cls0, st) ==
    LET u == try_unwrap_optional(cls0)
        cls == u.cls
        origin == Origin(cls)
        r == CASE cls \in DOMAIN st.registry ->
                    Returns(st, [b |-> "registry", cls |-> cls, conv |-> st.registry[cls]])
               [] origin = "Tuple" -> create_tuple_binder(cls, st)
               [] origin = "List" -> create_list_binder(cls, st)
               [] origin = "Union" -> create_union_binder(cls, st)
               [] is_newtype(cls) -> create_newtype_binder(cls, st)
               [] is_namedtuple(cls) -> created_namedtuple_binder(cls, st)
               [] cls = AnyType -> Returns(st, create_any_binder)
               [] cls.kind = "Enum" -> Returns(st, create_enum_binder(cls))
               [] OTHER -> create_custom_class_binder(cls, st)
    IN  IF r.exc # "none" THEN r
        ELSE [Returns(r, IF u.is_optional
                         THEN make_binder_optional(r.binder, r.closures + 1)
                         ELSE make_binder_required(r.binder, r.closures + 1))
              EXCEPT !.closures = r.closures + 1]

\* bind(cls, data): BindersFactory().get(cls)(data)
bind(cls, data) ==
    LET r == get(cls, Factory(EmptyCache, InitialRegistry, 0))
    IN  IF r.exc # "none" THEN Raise(r.exc, r.msg) ELSE call(r.binder, data)

(***************************************************************************)
(* The types and data explored                                             *)
(***************************************************************************)
MaxLen == 2         \* length of the input sequences explored
MaxClosures == 5    \* binders one factory compiles

IntType == Builtin("int")
StrType == Builtin("str")
\* UserId = NewType('UserId', int)
UserId == NewType("UserId", IntType)
MaybeId == NewType("MaybeId", Optional(IntType))
\* class X: x: int
ClassX == Class("X", FALSE, TRUE, FALSE, <<<<"x", IntType>>>>)
\* class XOptional: x: Optional[int]
ClassXOptional == Class("XOptional", FALSE, TRUE, FALSE, <<<<"x", Optional(IntType)>>>>)
\* a class with abstract methods
Abstract == Class("Abstract", TRUE, TRUE, FALSE, <<>>)
\* a class that defines __init__ (dict is one)
OwnInit == Class("OwnInit", FALSE, FALSE, FALSE, <<>>)
\* a class without __init__ whose __new__ wants arguments
NewWantsArgs == Class("NewWantsArgs", FALSE, TRUE, TRUE, <<>>)
\* class X(NamedTuple): a: int; b: str
RecordX == NamedTuple("X", <<"a", "b">>, <<<<"a", IntType>>, <<"b", StrType>>>>)
\* class XOpt(NamedTuple): a: int; b: Optional[str]
RecordXOpt == NamedTuple("XOpt", <<"a", "b">>, <<<<"a", IntType>>, <<"b", Optional(StrType)>>>>)
\* a class whose _fields and _field_types disagree
RecordBad == NamedTuple("Bad", <<"a", "b">>, <<<<"a", IntType>>>>)
\* class E(Enum): a = '1'
EnumE == Enum("E", FALSE, <<<<"a", StrV("1")>>>>)
\* class IE(IntEnum): a = 1; b = 2
IntEnumE == Enum("IE", TRUE, <<<<"a", IntV(1)>>, <<"b", IntV(2)>>>>)

BindTypes ==
    {IntType, StrType, Optional(IntType), Optional(StrType), AnyType, NoneType,
     UserId, MaybeId, NewType("Rec", RecordXOpt), NewType("Bad", Abstract),
     ClassX, ClassXOptional, Abstract, OwnInit, NewWantsArgs,
     RecordX, RecordXOpt, RecordBad, EnumE, IntEnumE,
     TupleOf(<<IntType, Optional(StrType)>>), TupleOf(<<IntType, IntType>>), TupleOf(<<IntType, Ellipsis>>),
     ListOf(IntType), ListOf(Optional(RecordXOpt)),
     UnionOf(<<IntType, StrType>>), UnionOf(<<StrType, IntType>>), Optional(UnionOf(<<IntType, StrType>>)),
     UnionOf(<<ClassX, IntType>>), UnionOf(<<IntType, ClassX>>), UnionOf(<<EnumE, ListOf(IntType)>>),
     UnionOf(<<IntType, Abstract>>), UnionOf(<<IntType, OwnInit>>), Optional(EnumE)}

Scalars == {None, IntV(1), IntV(5), StrV("1"), StrV("abc"), StrV(" ")}
Lists == {ListV(items) : items \in UNION {[1..n -> Scalars] : n \in 0..MaxLen}}
Dicts ==
    {DictV(<<>>), DictV(<<<<"a", StrV("1")>>>>), DictV(<<<<"a", IntV(1)>>, <<"b", StrV("b")>>>>),
     DictV(<<<<"b", StrV("b")>>>>), DictV(<<<<"x", IntV(1)>>>>), DictV(<<<<"x", StrV("abc")>>>>)}
BindData == {MISSING} \cup Scalars \cup Lists \cup Dicts

FactoryTypes ==
    {IntType, Optional(IntType), UserId, UnionOf(<<IntType, StrType>>),
     UnionOf(<<StrType, Abstract>>)}
Registrable == {IntType, StrType}
CallData == {MISSING, StrV("1"), StrV("abc")}

NoOutcome == [exc |-> "pending", val |-> None, msg |-> ""]
NoOp == [kind |-> "none", cls |-> AnyType, data |-> None, conv |-> StringConverter,
         binder |-> NoBinder, out |-> NoOutcome, hit |-> FALSE]

(***************************************************************************)
(* Spec: one BindersFactory                                                *)
(***************************************************************************)
InitFactory ==
    /\ cache = EmptyCache
    /\ registry = InitialRegistry
    /\ closures = 0
    /\ returned = EmptyCache
    /\ stale = {}
    /\ failedCall = FALSE
    /\ op = NoOp
    /\ pc = "factory"

Init == InitCollector /\ InitFactory

\* factory.get(cls)
Get(cls) ==
    /\ pc = "factory"
    /\ LET r == get(cls, Factory(cache, registry, closures))
       IN  /\ r.closures <= MaxClosures
           /\ cache' = r.cache
           /\ closures' = r.closures
           /\ returned' = IF r.exc = "none" /\ cls \notin DOMAIN returned
                          THEN (cls :> r.binder) @@ returned ELSE returned
           /\ op' = [NoOp EXCEPT !.kind = "get", !.cls = cls, !.binder = r.binder,
                                 !.out = IF r.exc = "none" THEN Ok(None)
                                         ELSE Raise(r.exc, r.msg),
                                 !.hit = cls \in DOMAIN cache]
    /\ UNCHANGED <<registry, stale, failedCall, pc>>
    /\ UNCHANGED collectorVars

\* factory.register_binder(cls, conv)
RegisterBinder(cls, conv) ==
    /\ pc = "factory"
    /\ cache' = CacheAfterRegister(cache)
    /\ registry' = RegistryPut(registry, cls, conv)
    /\ returned' = EmptyCache
    /\ stale' = stale \cup DOMAIN returned
    /\ failedCall' = FALSE
    /\ op' = [NoOp EXCEPT !.kind = "register", !.cls = cls, !.conv = conv]
    /\ UNCHANGED <<closures, pc>>
    /\ UNCHANGED collectorVars

\* binder(data), for a binder the factory holds
Invoke(cls, data) ==
    /\ pc = "factory"
    /\ cls \in DOMAIN cache
    /\ LET out == call(cache[cls], data)
       IN  /\ op' = [NoOp EXCEPT !.kind = "invoke", !.cls = cls, !.data = data,
                                 !.binder = cache[cls], !.out = out]
           /\ failedCall' = (failedCall \/ out.exc # "none")
    /\ UNCHANGED <<cache, registry, closures, returned, stale, pc>>
    /\ UNCHANGED collectorVars

Next ==
    \/ \E cls \in FactoryTypes : Get(cls)
    \/ \E cls \in Registrable, conv \in UserConverters : RegisterBinder(cls, conv)
    \/ \E cls \in FactoryTypes, data \in CallData : Invoke(cls, data)

Spec == Init /\ [][Next]_vars

(***************************************************************************)
(* SpecBind: bind(cls, data)                                               *)
(***************************************************************************)
InitBind ==
    /\ InitCollector
    /\ cache = EmptyCache
    /\ registry = InitialRegistry
    /\ closures = 0
    /\ returned = EmptyCache
    /\ stale = {}
    /\ failedCall = FALSE
    /\ \E cls \in BindTypes, data \in BindData :
           op = [NoOp EXCEPT !.kind = "bind", !.cls = cls, !.data = data]
    /\ pc = "start"

\* BindersFactory().get(cls)
BindGet ==
    /\ pc = "start"
    /\ LET r == get(op.cls, Factory(cache, registry, closures))
       IN  /\ cache' = r.cache
           /\ closures' = r.closures
           /\ op' = [op EXCEPT !.binder = r.binder,
                               !.out = IF r.exc = "none" THEN NoOutcome
                                       ELSE Raise(r.exc, r.msg)]
           /\ pc' = IF r.exc = "none" THEN "compiled" ELSE "failed"
    /\ UNCHANGED <<registry, returned, stale, failedCall>>
    /\ UNCHANGED collectorVars

\* ...(data)
BindCall ==
    /\ pc = "compiled"
    /\ op' = [op EXCEPT !.out = call(op.binder, op.data)]
    /\ pc' = "done"
    /\ UNCHANGED <<cache, registry, closures, returned, stale, failedCall>>
    /\ UNCHANGED collectorVars

NextBind == BindGet \/ BindCall

SpecBind == InitBind /\ [][NextBind]_vars

(***************************************************************************)
(* SpecErrors: one Errors collector                                        *)
(***************************************************************************)
NextErrors ==
    \/ AddError /\ UNCHANGED factoryVars
    \/ \E segment \in Segments : EnterPath(segment) /\ UNCHANGED factoryVars
    \/ ExitPath /\ UNCHANGED factoryVars
    \/ RaiseInside /\ UNCHANGED factoryVars
    \/ UnwindPath /\ UNCHANGED factoryVars
    \/ Catch /\ UNCHANGED factoryVars

SpecErrors == Init /\ [][NextErrors]_vars

(***************************************************************************)
(* Properties of the error collector (SpecErrors)                          *)
(***************************************************************************)
Front(k) == SubSeq(k, 1, Len(k) - 1)
Last(k) == k[Len(k)]

\* the local bucket of path p in the snapshot: what the node at p maps "" to
BucketAt(tree, p) ==
    LET k == Append(p, GLOBAL_ERROR_KEY)
    IN  IF k \in DOMAIN tree THEN tree[k] ELSE ListNode(<<>>)

\* the paths that have a local bucket, or under which an error was stored
PathsSeen == DOMAIN added \cup {Front(k) : k \in {j \in DOMAIN errors : Last(j) = GLOBAL_ERROR_KEY}}

\* C1: whenever a with_path block is left, normally or by an exception, the
\* current path is the path that was current when the block was entered.
PathRestoredOnExit ==
    [][Len(scopes') < Len(scopes) => current_path' = scopes[Len(scopes)]]_vars

\* C1 witness: a nested block in which an error was added has just been left
\* by an exception, and the enclosing block is still open.
NestedBlockUnwound ==
    /\ last = "unwound"
    /\ Len(scopes) = 1
    /\ current_path = <<IntKey(0)>>
    /\ \E p \in DOMAIN added : Len(p) = 2

\* C2: the local bucket at every path holds exactly the errors add_error
\* stored while that path was current, in the order they were added.
BucketsAccumulate ==
    \A p \in PathsSeen : BucketAt(errors, p) = ListNode(HistoryAt(added, p))

\* C3: every node maps "" to a list of errors and every other key to a
\* nested node, every prefix of a path an error was added under is a nested
\* node, and add_error never fails.
TreeShape ==
    /\ \A k \in DOMAIN errors : errors[k].isList <=> (Last(k) = GLOBAL_ERROR_KEY)
    /\ \A p \in DOMAIN added : \A n \in 1..Len(p) :
           SubSeq(p, 1, n) \in DOMAIN errors /\ ~errors[SubSeq(p, 1, n)].isList
    /\ last # "AttributeError"

(***************************************************************************)
(* Properties of one factory (Spec)                                        *)
(***************************************************************************)
RECURSIVE Converters(_)
\* the registry entries a binder calls, each with the class it was looked up for
Converters(binder) ==
    LET i == binder.inner
    IN  CASE i.b = "registry" -> {<<i.cls, i.conv>>}
          [] i.b \in {"tuple", "list", "union"} ->
                UNION {Converters(i.binders[n]) : n \in DOMAIN i.binders}
          [] i.b = "get" -> Converters(i.binder)
          [] i.b \in {"namedtuple", "class"} ->
                UNION {Converters(i.binders[n][2]) : n \in DOMAIN i.binders}
          [] OTHER -> {}

UsesRegistered(binder) ==
    \A c \in Converters(binder) : c[1] \in DOMAIN registry /\ registry[c[1]] = c[2]

MemoStep ==
    /\ (op'.kind = "get" /\ op'.out.exc = "none" /\ op'.cls \in DOMAIN returned)
           => op'.binder = returned[op'.cls]
    /\ op'.kind # "register"
           => \A cls \in DOMAIN returned : cls \in DOMAIN cache' /\ cache'[cls] = returned[cls]
    /\ op'.kind = "invoke" => cache' = cache /\ registry' = registry

\* C4: until register_binder is called, a get of a descriptor returns the
\* binder the first get of it returned, whatever was compiled or invoked in
\* between, and invoking a binder changes neither the cache nor the registry.
Memoized == [][MemoStep]_vars

\* C4 witness: a get answered from the cache, after an invocation failed and
\* other descriptors were compiled.
CachedGetAfterFailedCall ==
    /\ op.kind = "get"
    /\ op.hit
    /\ failedCall
    /\ op.cls \in DOMAIN returned /\ op.binder = returned[op.cls]
    /\ Cardinality(DOMAIN cache) >= 3

\* C5: register_binder leaves the cache empty, and every binder the factory
\* holds or returns afterwards converts with the converters now registered.
RegistrationClearsCache ==
    /\ op.kind = "register" => cache = EmptyCache
    /\ \A cls \in DOMAIN cache : UsesRegistered(cache[cls])
    /\ (op.kind = "get" /\ op.out.exc = "none") => UsesRegistered(op.binder)
    /\ (op.kind = "invoke" /\ op.cls \in Registrable /\ op.out.exc = "none"
        /\ registry[op.cls] \in UserConverters)
           => op.out.val = ConvertedV(registry[op.cls].cls, op.data)

\* C5 witness: an alias of int compiled before a registration for int is
\* compiled again after it and converts with the registered converter.
RecompiledAfterRegistration ==
    /\ op.kind = "get"
    /\ op.out.exc = "none"
    /\ op.cls = UserId
    /\ op.cls \in stale
    /\ registry[IntType] = UserConverter("c2")
    /\ Converters(op.binder) = {<<IntType, UserConverter("c2")>>}

(***************************************************************************)
(* Properties of bind(cls, data) (SpecBind)                                *)
(***************************************************************************)
SameOutcome(a, b) == a.exc = b.exc /\ a.val = b.val

\* Optional[D]: a Union with None among its arguments
IsOptionalType(cls) == cls.kind = "Union" /\ NoneType \in SeqToSet(cls.args)

\* C6: given the absence marker, the binder of Optional[D] yields None and
\* the binder of any other type raises "value is missing, but required".
AbsenceHandling ==
    (pc = "done" /\ op.data = MISSING)
        => IF IsOptionalType(op.cls) THEN op.out = Ok(None)
           ELSE op.out = Raise("PybindError", "value is missing, but required")

RECURSIVE FirstSuccess(_, _)
\* the outcome of the first alternative, in order, that binds the data; a
\* PybindError when none does
FirstSuccess(types, data) ==
    IF types = <<>> THEN Raise("PybindError", "unable to bind")
    ELSE LET r == bind(Head(types), data)
         IN  IF r.exc = "none" THEN r ELSE FirstSuccess(Tail(types), data)

\* C7: for data other than the absence marker, the binder of a Union returns
\* what the first alternative that binds the data returns, and raises one
\* PybindError exactly when no alternative binds it.
UnionFirstSuccess ==
    (pc = "done" /\ op.cls.kind = "Union" /\ ~try_unwrap_optional(op.cls).is_optional
     /\ op.data # MISSING)
        => SameOutcome(op.out, FirstSuccess(op.cls.args, op.data))

\* the dict {f1: s[1], ..., fk: s[k]}
AsDict(fields, items) == DictV([i \in DOMAIN items |-> <<fields[i], items[i]>>])

\* C8: binding a sequence no longer than the field list to a record has the
\* outcome of binding the dict of its elements keyed by the leading fields.
PositionalNamedAgree ==
    (pc = "done" /\ is_namedtuple(op.cls) /\ IsSequence(op.data)
     /\ Len(op.data.items) <= Len(op.cls.fields))
        => SameOutcome(op.out, bind(op.cls, AsDict(op.cls.fields, op.data.items)))

\* C8 witness: [1] bound to XOpt(a: int, b: Optional[str]) gives XOpt(1, None).
ShortSequenceBound ==
    /\ pc = "done"
    /\ op.cls = RecordXOpt
    /\ op.data = ListV(<<IntV(1)>>)
    /\ op.out = Ok(NamedTupleV("XOpt", <<IntV(1), None>>))

RECURSIVE StaticProblem(_)
\* the type, or a type nested in it, is abstract, defines __init__, or has
\* fields that disagree with its annotations
StaticProblem(cls) ==
    CASE cls.kind = "class" ->
            \/ cls.abstract
            \/ ~cls.default_init
            \/ \E n \in DOMAIN cls.hints : StaticProblem(cls.hints[n][2])
      [] cls.kind = "NamedTuple" ->
            \/ SeqToSet(cls.fields) # Keys(cls.field_types)
            \/ \E n \in DOMAIN cls.field_types : StaticProblem(cls.field_types[n][2])
      [] cls.kind \in {"Tuple", "List", "Union"} ->
            \E n \in DOMAIN cls.args : StaticProblem(cls.args[n])
      [] cls.kind = "NewType" -> StaticProblem(cls.supertype)
      [] OTHER -> FALSE

\* C9: a type with a static problem fails to compile, compilation fails
\* only with ConfigError, and invoking a binder never raises ConfigError.
StaticProblemsAreConfigErrors ==
    /\ pc \in {"compiled", "done"} => ~StaticProblem(op.cls)
    /\ pc = "failed" => op.out.exc = "ConfigError"
    /\ pc = "done" => op.out.exc # "ConfigError"

\* C10: binding data to NewType(name, D) has the outcome of binding it to D.
AliasDelegates ==
    (pc \in {"done", "failed"} /\ is_newtype(op.cls))
        => SameOutcome(op.out, bind(op.cls.supertype, op.data))

=============================================================================
